---- MODULE Spec2Model ----
(***************************************************************************)
(* Model of notebooks/utils.py: the helpers a notebook session calls on    *)
(* its flight table (get_flight_seasonality_graph, get_period_day,         *)
(* get_delay_rate_graph, get_to_hub_flag).  The session owns its inputs    *)
(* (data, x, flight, foreign_hubs); every call is one action that records  *)
(* what the call returned, raised or handed to the chart in `result`.      *)
(***************************************************************************)
EXTENDS Integers, Sequences, FiniteSets

VARIABLES data, x, flight, foreign_hubs, result

vars == <<data, x, flight, foreign_hubs, result>>

(* ----------------------------- bounds ---------------------------------- *)
MaxRows == 4
MaxHubRows == 2

(* ------------------------- values and errors --------------------------- *)
\* a missing cell of the table (numpy.nan)
nan == -1
NoError == "none"

\* a float as the fraction num / den, or not-a-number
NaNRate == [isnan |-> TRUE, num |-> 0, den |-> 1]
Ratio(n, d) == [isnan |-> FALSE, num |-> n, den |-> d]
RateEq(a, b) ==
    IF a.isnan \/ b.isnan THEN a.isnan /\ b.isnan
    ELSE a.num * b.den = b.num * a.den
\* a >= b on defined rates
RateGeq(a, b) == a.num * b.den >= b.num * a.den

(* ------------------------------ tables --------------------------------- *)
\* A table is [cols, rows]: the column names and the rows, each a function
\* from the column names to cells.  The session's table has a month column,
\* a group column and the delay indicator.
time_column == "MES"
grouping_column == "GRUPO"
delay_15 == "delay_15"

TimeValues == {1, 2, nan}
\* the group keys (1 and 2 stand for the groups A and B)
GroupKeys == {1, 2}
GroupValues == GroupKeys \cup {nan}
DelayValues == {0, 1, nan}

ColValues(c) ==
    IF c = time_column THEN TimeValues
    ELSE IF c = grouping_column THEN GroupValues
    ELSE DelayValues

RowsOver(cols) ==
    {r \in [cols -> TimeValues \cup GroupValues \cup DelayValues] :
        \A c \in cols : r[c] \in ColValues(c)}

SeqsUpTo(S, n) == UNION {[1..k -> S] : k \in 0..n}

EmptyTable == [cols |-> {}, rows |-> <<>>]

NoChart == [kind |-> "none", points |-> {}, bars |-> <<>>, ref |-> NaNRate]

\* data[[c1, c2]] / data.groupby(c): a column the table lacks is a KeyError
MissingColumn(df, cs) == ~(cs \subseteq df.cols)

(* ------------------- get_flight_seasonality_graph ---------------------- *)
\* the pairs are collected but not counted
AddCount_unique(acc, k) == acc \cup {[key |-> k, n |-> 1]}

\* one more occurrence of key k in the counts so far
AddCount(acc, k) ==
    IF \E e \in acc : e.key = k
    THEN {IF e.key = k THEN [e EXCEPT !.n = @ + 1] ELSE e : e \in acc}
    ELSE acc \cup {[key |-> k, n |-> 1]}

RECURSIVE CountFrom(_, _, _, _, _)
CountFrom(rows, i, tc, gc, acc) ==
    IF i > Len(rows) THEN acc
    ELSE LET r == rows[i]
         IN CountFrom(rows, i + 1, tc, gc,
                \* value_counts drops the rows with a missing cell
                IF r[tc] = nan \/ r[gc] = nan THEN acc
                ELSE AddCount(acc, <<r[tc], r[gc]>>))

\* data[[tc, gc]].value_counts().reset_index(): one row per pair, the
\* count in column 0
value_counts(df, tc, gc) == CountFrom(df.rows, 1, tc, gc, {})

\* the missing column is swallowed and an empty chart is shown
get_flight_seasonality_graph_swallow(df, tc, gc) ==
    [raised |-> NoError,
     chart |-> [kind |-> "line",
                points |-> IF MissingColumn(df, {tc, gc}) THEN {}
                           ELSE value_counts(df, tc, gc),
                bars |-> <<>>, ref |-> NaNRate],
     data |-> df]

\* the outcome of a call: what it raised, the chart shown, the caller's
\* table after the call
get_flight_seasonality_graph(df, tc, gc) ==
    IF MissingColumn(df, {tc, gc})
    THEN [raised |-> "KeyError", chart |-> NoChart, data |-> df]
    ELSE [raised |-> NoError,
          chart |-> [kind |-> "line", points |-> value_counts(df, tc, gc),
                     bars |-> <<>>, ref |-> NaNRate],
          data |-> df]

(* ---------------------- get_delay_rate_graph --------------------------- *)
RECURSIVE SumCells(_)
SumCells(cells) ==
    IF cells = <<>> THEN 0 ELSE Head(cells) + SumCells(Tail(cells))

\* np.mean: one missing cell makes the mean not-a-number
nanmean_strict(cells) ==
    IF Len(cells) = 0 \/ \E i \in 1..Len(cells) : cells[i] = nan THEN NaNRate
    ELSE Ratio(SumCells(cells), Len(cells))

\* the mean of the cells that are not missing; not-a-number when there are none
nanmean(cells) ==
    LET Present(c) == c # nan
        valid == SelectSeq(cells, Present)
    IN IF Len(valid) = 0 THEN NaNRate ELSE Ratio(SumCells(valid), Len(valid))

\* data['delay_15']
DelayColumn(rows) == [i \in 1..Len(rows) |-> rows[i][delay_15]]

RECURSIVE Ascending(_)
Ascending(S) ==
    IF S = {} THEN <<>>
    ELSE LET m == CHOOSE k \in S : \A j \in S : k <= j
         IN <<m>> \o Ascending(S \ {m})

\* data.groupby(gc, as_index = False).mean()[[gc, 'delay_15']]: one row per
\* key in key order, the rows with a missing key left out, the mean taken
\* over the cells that are not missing
groupby_mean(df, gc) ==
    LET keys == Ascending({df.rows[i][gc] : i \in 1..Len(df.rows)} \ {nan})
    IN [j \in 1..Len(keys) |->
            LET InGroup(r) == r[gc] = keys[j]
            IN [key |-> keys[j],
                delay_15 |-> nanmean(DelayColumn(SelectSeq(df.rows, InGroup)))]]

Times100(r) == IF r.isnan THEN r ELSE Ratio(r.num * 100, r.den)

\* the scaling is written to the caller's table as well
ScaleDelay_inplace(df, d) ==
    [d |-> [j \in 1..Len(d) |-> [d[j] EXCEPT !.delay_15 = Times100(@)]],
     data |-> [df EXCEPT !.rows =
                 [i \in 1..Len(df.rows) |->
                    [df.rows[i] EXCEPT ![delay_15] =
                        IF @ = nan THEN nan ELSE @ * 100]]]]

\* d['delay_15'] = d['delay_15']*100: writes the derived frame d, not data
ScaleDelay(df, d) ==
    [d |-> [j \in 1..Len(d) |-> [d[j] EXCEPT !.delay_15 = Times100(@)]],
     data |-> df]

RECURSIVE SumRates(_)
SumRates(rs) ==
    IF rs = <<>> THEN Ratio(0, 1)
    ELSE LET t == SumRates(Tail(rs))
         IN Ratio(Head(rs).num * t.den + t.num * Head(rs).den,
                  Head(rs).den * t.den)

\* the reference line as the mean of the group means
global_mean_of_group_means(df) ==
    LET d == groupby_mean(df, grouping_column)
        Defined(r) == ~r.isnan
        means == SelectSeq([j \in 1..Len(d) |-> d[j].delay_15], Defined)
        total == SumRates(means)
    IN IF Len(means) = 0 THEN NaNRate
       ELSE Times100(Ratio(total.num, total.den * Len(means)))

\* np.nanmean(data['delay_15'])*100
global_mean(df) == Times100(nanmean(DelayColumn(df.rows)))

\* ascending = True
Before_ascending(a, b) == b.isnan \/ (~a.isnan /\ RateGeq(b, a))

\* a before b when sorting descending with the missing values last
Before(a, b) == b.isnan \/ (~a.isnan /\ RateGeq(a, b))

Orderings(n) ==
    {p \in [1..n -> 1..n] : \A i, j \in 1..n : p[i] = p[j] => i = j}

\* d.sort_values('delay_15', ascending = False): the order of equal values
\* is not fixed by the sort
sort_values(d) ==
    {s \in {[i \in 1..Len(d) |-> d[p[i]]] : p \in Orderings(Len(d))} :
        \A i \in 1..(Len(s) - 1) : Before(s[i].delay_15, s[i + 1].delay_15)}

\* the outcomes a call can have
get_delay_rate_graph(df, gc) ==
    IF MissingColumn(df, {gc}) \/ MissingColumn(df, {delay_15})
    THEN {[raised |-> "KeyError", chart |-> NoChart, data |-> df]}
    ELSE LET after == ScaleDelay(df, groupby_mean(df, gc))
         IN {[raised |-> NoError,
              chart |-> [kind |-> "bar", points |-> {}, bars |-> s,
                         ref |-> global_mean(df)],
              data |-> after.data] : s \in sort_values(after.d)}

(* ------------------------- get_period_day ------------------------------ *)
Timestamps == [hour : 0..23, minute : {0, 59}]

\* morning ends one hour early
get_period_day_short_morning(ts) ==
    IF ts.hour >= 5 /\ ts.hour < 11 THEN "morning"
    ELSE IF ts.hour >= 12 /\ ts.hour <= 18 THEN "afternoon"
    ELSE "night"

get_period_day(ts) ==
    IF ts.hour >= 5 /\ ts.hour <= 11 THEN "morning"
    ELSE IF ts.hour >= 12 /\ ts.hour <= 18 THEN "afternoon"
    ELSE "night"

(* -------------------------- get_to_hub_flag ---------------------------- *)
Carriers == {"X", "Y"}
Cities == {"HUB", "OTHER"}
Absent == ""

\* a flight row: the fields its index holds (an absent field is Absent), or
\* None
Flights ==
    {f \in [type : {"Series"}, index : SUBSET {"OPERA", "SIGLADES"},
            OPERA : Carriers \cup {Absent}, SIGLADES : Cities \cup {Absent}] :
        /\ ("OPERA" \in f.index) = (f.OPERA # Absent)
        /\ ("SIGLADES" \in f.index) = (f.SIGLADES # Absent)}
NoneFlight ==
    [type |-> "NoneType", index |-> {}, OPERA |-> Absent, SIGLADES |-> Absent]

HubRowsOver(cols) ==
    {r \in [cols -> Carriers \cup Cities] :
        /\ "OPERA" \in cols => r["OPERA"] \in Carriers
        /\ "SIGLADES" \in cols => r["SIGLADES"] \in Cities}
HubTables ==
    UNION {{[type |-> "DataFrame", cols |-> cols, rows |-> rs] :
                rs \in SeqsUpTo(HubRowsOver(cols), MaxHubRows)} :
           cols \in SUBSET {"OPERA", "SIGLADES"}}
NoneTable == [type |-> "NoneType", cols |-> {}, rows |-> <<>>]

Raise(e) == [raised |-> e, value |-> FALSE]
Return(v) == [raised |-> NoError, value |-> v]

\* the row mask is dropped: the SIGLADES cells of every row
LocSigladesOf_unmasked(hubs, opera) ==
    [i \in 1..Len(hubs.rows) |-> hubs.rows[i]["SIGLADES"]]

\* foreign_hubs.loc[foreign_hubs['OPERA'] == flight['OPERA'], 'SIGLADES']:
\* the SIGLADES cells of the rows whose carrier is the flight's
LocSigladesOf(hubs, opera) ==
    LET Matches(r) == r["OPERA"] = opera
        sel == SelectSeq(hubs.rows, Matches)
    IN [i \in 1..Len(sel) |-> sel[i]["SIGLADES"]]

\* the body of the try, evaluated in Python's order
HubLookup(fl, hubs) ==
    IF hubs.type = "NoneType" THEN Raise("AttributeError")
    ELSE IF "OPERA" \notin hubs.cols THEN Raise("KeyError")
    ELSE IF fl.type = "NoneType" THEN Raise("TypeError")
    ELSE IF "OPERA" \notin fl.index THEN Raise("KeyError")
    ELSE IF "SIGLADES" \notin hubs.cols THEN Raise("KeyError")
    ELSE LET values == LocSigladesOf(hubs, fl.OPERA)
         IN IF Len(values) = 0 THEN Raise("IndexError")
            ELSE IF "SIGLADES" \notin fl.index THEN Raise("KeyError")
            ELSE Return(values[1] = fl.SIGLADES)

\* except KeyError: the lookup that finds no row is not caught
Catches_only_KeyError(e) == e = "KeyError"

\* except IndexError: only the lookup that finds no row is caught
Catches_only_IndexError(e) == e = "IndexError"

\* except: a bare except clause catches every error
Catches(e) == TRUE

get_to_hub_flag(fl, hubs) ==
    LET body == HubLookup(fl, hubs)
    IN IF body.raised # NoError /\ Catches(body.raised) THEN Return(FALSE)
       ELSE body

(* ---------------------------- the session ------------------------------ *)
NoResult ==
    [fn |-> "none", raised |-> NoError, label |-> "", flag |-> FALSE,
     chart |-> NoChart]

DefaultTimestamp == [hour |-> 0, minute |-> 0]

\* the column sets of the tables that lack a column of either chart
LackingColumns ==
    {{}, {time_column}, {grouping_column}, {delay_15}, {time_column, delay_15}}

\* data is a table over cols of at most n rows
IsTableOver(cols, n) ==
    \E k \in 0..n : \E rs \in [1..k -> RowsOver(cols)] :
        data = [cols |-> cols, rows |-> rs]

\* the tables a session starts with: month x group tables for the
\* seasonality chart, group x delay tables for the delay chart, and tables
\* that lack a column
InitTable ==
    \/ IsTableOver({time_column, grouping_column}, MaxRows)
    \/ IsTableOver({grouping_column, delay_15}, MaxRows)
    \/ \E cs \in LackingColumns : IsTableOver(cs, 1)

Init ==
    /\ result = NoResult
    /\ \/ /\ InitTable
          /\ x = DefaultTimestamp
          /\ flight = NoneFlight
          /\ foreign_hubs = NoneTable
       \/ /\ data = EmptyTable
          /\ x \in Timestamps
          /\ flight = NoneFlight
          /\ foreign_hubs = NoneTable
       \/ /\ data = EmptyTable
          /\ x = DefaultTimestamp
          /\ flight \in Flights \cup {NoneFlight}
          /\ foreign_hubs \in HubTables \cup {NoneTable}

CallSeasonality ==
    LET out == get_flight_seasonality_graph(data, time_column, grouping_column)
    IN /\ result' = [NoResult EXCEPT !.fn = "get_flight_seasonality_graph",
                                     !.raised = out.raised,
                                     !.chart = out.chart]
       /\ data' = out.data
       /\ UNCHANGED <<x, flight, foreign_hubs>>

CallPeriodDay ==
    /\ result' = [NoResult EXCEPT !.fn = "get_period_day",
                                  !.label = get_period_day(x)]
    /\ UNCHANGED <<data, x, flight, foreign_hubs>>

CallDelayRate ==
    \E out \in get_delay_rate_graph(data, grouping_column) :
        /\ result' = [NoResult EXCEPT !.fn = "get_delay_rate_graph",
                                      !.raised = out.raised,
                                      !.chart = out.chart]
        /\ data' = out.data
        /\ UNCHANGED <<x, flight, foreign_hubs>>

CallToHubFlag ==
    LET out == get_to_hub_flag(flight, foreign_hubs)
    IN /\ result' = [NoResult EXCEPT !.fn = "get_to_hub_flag",
                                     !.raised = out.raised,
                                     !.flag = out.value]
       /\ UNCHANGED <<data, x, flight, foreign_hubs>>

Next ==
    \/ CallSeasonality
    \/ CallPeriodDay
    \/ CallDelayRate
    \/ CallToHubFlag

Spec == Init /\ [][Next]_vars

(* ----------------------------- properties ------------------------------ *)
Called(f) == result.fn = f
Returned(f) == result.fn = f /\ result.raised = NoError

\* C1: for every hour 0..23 get_period_day returns "morning" for 5..11,
\* "afternoon" for 12..18 and "night" for every other hour; the boundary
\* hours 4, 5, 11, 12, 18, 19 give night, morning, morning, afternoon,
\* afternoon, night.
PeriodDayByHour ==
    Called("get_period_day") =>
        /\ result.raised = NoError
        /\ x.hour \in {5, 6, 7, 8, 9, 10, 11} => result.label = "morning"
        /\ x.hour \in {12, 13, 14, 15, 16, 17, 18} => result.label = "afternoon"
        /\ x.hour \in {19, 20, 21, 22, 23, 0, 1, 2, 3, 4} => result.label = "night"
        /\ result.label \in {"morning", "afternoon", "night"}

PeriodDayBoundaryWitness ==
    /\ Called("get_period_day")
    /\ x.hour = 11
    /\ x.minute = 59
    /\ result.label = "morning"

\* the rows of the hub table that belong to the flight's carrier
CarrierRows ==
    {i \in 1..Len(foreign_hubs.rows) :
        "OPERA" \in foreign_hubs.cols
        /\ foreign_hubs.rows[i]["OPERA"] = flight.OPERA}

\* C2: when the hub table holds exactly one row for the flight's carrier,
\* get_to_hub_flag returns true if and only if the flight's destination
\* equals the SIGLADES of that row.
HubFlagIffDestinationIsHub ==
    ( /\ Called("get_to_hub_flag")
      /\ flight.type = "Series" /\ "OPERA" \in flight.index
      /\ foreign_hubs.type = "DataFrame"
      /\ {"OPERA", "SIGLADES"} \subseteq foreign_hubs.cols
      /\ Cardinality(CarrierRows) = 1 )
    => /\ result.raised = NoError
       /\ result.flag =
            (\E i \in CarrierRows :
                /\ "SIGLADES" \in flight.index
                /\ foreign_hubs.rows[i]["SIGLADES"] = flight.SIGLADES)

\* the carrier's row is the second row and the flight goes to its hub
HubFlagTrueWitness ==
    /\ Called("get_to_hub_flag")
    /\ flight.type = "Series" /\ flight.index = {"OPERA", "SIGLADES"}
    /\ foreign_hubs.type = "DataFrame"
    /\ foreign_hubs.cols = {"OPERA", "SIGLADES"}
    /\ Len(foreign_hubs.rows) = 2
    /\ CarrierRows = {2}
    /\ foreign_hubs.rows[1]["SIGLADES"] # flight.SIGLADES
    /\ result.flag = TRUE

\* C3: for a flight whose carrier appears in no row of the hub table (an
\* empty hub table included) get_to_hub_flag returns false and raises no
\* error, whatever the destination.
HubFlagFalseForUnknownCarrier ==
    ( /\ Called("get_to_hub_flag")
      /\ flight.type = "Series" /\ "OPERA" \in flight.index
      /\ foreign_hubs.type = "DataFrame"
      /\ CarrierRows = {} )
    => /\ result.raised = NoError
       /\ result.flag = FALSE

\* another carrier's hub is the flight's destination
UnknownCarrierWitness ==
    /\ Called("get_to_hub_flag")
    /\ flight.type = "Series" /\ flight.index = {"OPERA", "SIGLADES"}
    /\ foreign_hubs.type = "DataFrame"
    /\ foreign_hubs.cols = {"OPERA", "SIGLADES"}
    /\ Len(foreign_hubs.rows) > 0
    /\ CarrierRows = {}
    /\ foreign_hubs.rows[1]["SIGLADES"] = flight.SIGLADES
    /\ result.raised = NoError
    /\ result.flag = FALSE

\* C4: get_to_hub_flag never propagates an error: whatever the lookup or
\* the comparison raises (missing carrier, empty result, a record or table
\* lacking OPERA or SIGLADES, a value of the wrong type), it returns false.
HubFlagNeverRaises ==
    Called("get_to_hub_flag") =>
        /\ result.raised = NoError
        /\ HubLookup(flight, foreign_hubs).raised # NoError
              => result.flag = FALSE

\* the carrier's hub is found and the flight record lacks SIGLADES
HubFlagSwallowsWitness ==
    /\ Called("get_to_hub_flag")
    /\ foreign_hubs.type = "DataFrame"
    /\ flight.type = "Series" /\ flight.index = {"OPERA"}
    /\ CarrierRows # {}
    /\ HubLookup(flight, foreign_hubs).raised = "KeyError"
    /\ result.raised = NoError
    /\ result.flag = FALSE

\* the rows of the table, of its group k, and those with the delay present
AllRows == 1..Len(data.rows)
RowsOfGroup(k) == {i \in AllRows : data.rows[i][grouping_column] = k}
Valid(S) == {i \in S : data.rows[i][delay_15] # nan}
Delayed(S) == {i \in S : data.rows[i][delay_15] = 1}

\* r is 100 times the share of delayed rows among the rows of S whose
\* delay is present (not-a-number when there is none)
IsPercentDelayed(r, S) ==
    IF Valid(S) = {} THEN r.isnan
    ELSE /\ ~r.isnan
         /\ r.den > 0
         /\ r.num * Cardinality(Valid(S)) = 100 * Cardinality(Delayed(S)) * r.den

\* the table of the example: group A (1) with delays 1, 0 and group B (2)
\* with delays 1, 1
DelayRow(g, d) ==
    [c \in {grouping_column, delay_15} |-> IF c = delay_15 THEN d ELSE g]
ExampleRows ==
    <<DelayRow(1, 1), DelayRow(1, 0), DelayRow(2, 1), DelayRow(2, 1)>>

\* C5: in get_delay_rate_graph each group's plotted value is 100 times the
\* mean of delay_15 over the group's rows with delay_15 present, and the
\* reference line is 100 times the mean of delay_15 over all rows of the
\* table with delay_15 present (row-weighted); A=[1,0], B=[1,1] give
\* A=50, B=100 and reference 75.
DelayRatesAreRowWeightedMeans ==
    Returned("get_delay_rate_graph") =>
        /\ \A j \in 1..Len(result.chart.bars) :
              IsPercentDelayed(result.chart.bars[j].delay_15,
                               RowsOfGroup(result.chart.bars[j].key))
        /\ IsPercentDelayed(result.chart.ref, AllRows)
        /\ data.rows = ExampleRows =>
              /\ RateEq(result.chart.ref, Ratio(75, 1))
              /\ \A j \in 1..Len(result.chart.bars) :
                    RateEq(result.chart.bars[j].delay_15,
                           IF result.chart.bars[j].key = 1 THEN Ratio(50, 1)
                           ELSE Ratio(100, 1))

DelayExampleWitness ==
    /\ Returned("get_delay_rate_graph")
    /\ data.rows = ExampleRows
    /\ Len(result.chart.bars) = 2
    /\ RateEq(result.chart.ref, Ratio(75, 1))

\* the keys of the groups of the table
TableGroups == {data.rows[i][grouping_column] : i \in AllRows} \ {nan}

\* C6: the groups handed to the bar chart are in descending order of delay
\* rate (of two adjacent bars with defined rates the earlier one has the
\* greater or equal rate), and every group of the table appears exactly once.
BarsSortedDescending ==
    Returned("get_delay_rate_graph") =>
        LET bars == result.chart.bars
        IN /\ \A j \in 1..(Len(bars) - 1) :
                 (~bars[j].delay_15.isnan /\ ~bars[j + 1].delay_15.isnan)
                    => RateGeq(bars[j].delay_15, bars[j + 1].delay_15)
           /\ \A k \in TableGroups :
                 Cardinality({j \in 1..Len(bars) : bars[j].key = k}) = 1
           /\ \A j \in 1..Len(bars) : bars[j].key \in TableGroups

\* the sort moved the second group in front of the first
BarsReorderedWitness ==
    /\ Returned("get_delay_rate_graph")
    /\ Len(result.chart.bars) = 2
    /\ result.chart.bars[1].key = 2
    /\ ~result.chart.bars[2].delay_15.isnan
    /\ ~RateGeq(result.chart.bars[2].delay_15, result.chart.bars[1].delay_15)

\* the rows with both the month and the group present, and their pairs
PairRows ==
    {i \in AllRows : data.rows[i][time_column] # nan
                     /\ data.rows[i][grouping_column] # nan}
PairOf(i) == <<data.rows[i][time_column], data.rows[i][grouping_column]>>

RECURSIVE TotalCount(_)
TotalCount(S) ==
    IF S = {} THEN 0
    ELSE LET e == CHOOSE e \in S : TRUE IN e.n + TotalCount(S \ {e})

\* C7: the data handed to the line chart holds exactly one entry per
\* distinct (month, group) pair of the table, the entry's count is the number
\* of rows with that pair, and the counts sum to the number of rows that
\* have both values present.
SeasonalityCountsPairs ==
    Returned("get_flight_seasonality_graph") =>
        LET points == result.chart.points
        IN /\ {e.key : e \in points} = {PairOf(i) : i \in PairRows}
           /\ Cardinality(points) = Cardinality({PairOf(i) : i \in PairRows})
           /\ \A e \in points :
                 e.n = Cardinality({i \in PairRows : PairOf(i) = e.key})
           /\ TotalCount(points) = Cardinality(PairRows)

\* a pair that occurs twice, another pair, and a row with a missing value
SeasonalityWitness ==
    /\ Returned("get_flight_seasonality_graph")
    /\ Cardinality(result.chart.points) = 2
    /\ \E e \in result.chart.points : e.n = 2
    /\ Len(data.rows) = 4
    /\ Cardinality(PairRows) = 3

\* C8: when a required column is absent from the table (the time or the
\* grouping column for get_flight_seasonality_graph; the grouping column or
\* delay_15 for get_delay_rate_graph) the call fails with a missing-column
\* error that reaches the caller, and no chart is rendered.
MissingColumnReachesCaller ==
    /\ ( /\ Called("get_flight_seasonality_graph")
         /\ ~({time_column, grouping_column} \subseteq data.cols) )
       => (result.raised = "KeyError" /\ result.chart.kind = "none")
    /\ ( /\ Called("get_delay_rate_graph")
         /\ ~({grouping_column, delay_15} \subseteq data.cols) )
       => (result.raised = "KeyError" /\ result.chart.kind = "none")

\* the seasonality chart of a table that has rows but no grouping column
MissingColumnWitness ==
    /\ Called("get_flight_seasonality_graph")
    /\ time_column \in data.cols
    /\ grouping_column \notin data.cols
    /\ Len(data.rows) > 0
    /\ result.raised = "KeyError"

\* the delay chart of a table that has the grouping column but no delay_15
MissingDelayColumnWitness ==
    /\ Called("get_delay_rate_graph")
    /\ data.cols = {time_column, grouping_column}
    /\ Len(data.rows) > 0
    /\ result.raised = "KeyError"

\* C9: no call mutates caller-owned data: across every call, whether it
\* returns or fails, the caller's table, timestamp, flight record and hub
\* table are unchanged; the percentage scaling of delay_15 is applied only
\* to the derived aggregate.
CallerDataUnchanged ==
    [][ /\ data' = data
        /\ x' = x
        /\ flight' = flight
        /\ foreign_hubs' = foreign_hubs ]_vars

\* a delay chart with a scaled rate over a table whose cells are still 0 / 1
ScaledOnlyAggregateWitness ==
    /\ Returned("get_delay_rate_graph")
    /\ \E j \in 1..Len(result.chart.bars) :
          /\ ~result.chart.bars[j].delay_15.isnan
          /\ result.chart.bars[j].delay_15.num >= 100
    /\ \A i \in AllRows : data.rows[i][delay_15] \in DelayValues

\* the groups all of whose rows have a missing delay_15
AllMissingGroups == {k \in TableGroups : Valid(RowsOfGroup(k)) = {}}

\* the table without the rows of group k
WithoutGroup(k) ==
    LET Other(r) == r[grouping_column] # k
    IN [data EXCEPT !.rows = SelectSeq(data.rows, Other)]

\* C10: a group all of whose rows have a missing delay_15 does not make
\* get_delay_rate_graph fail: the call completes, the group's rate is
\* not-a-number, and the rates of the other groups and the reference line
\* are those of the table without that group's rows.
AllMissingGroupIsNaN ==
    (Called("get_delay_rate_graph")
        /\ {grouping_column, delay_15} \subseteq data.cols)
    => \A k \in AllMissingGroups :
          /\ result.raised = NoError
          /\ \A j \in 1..Len(result.chart.bars) :
                result.chart.bars[j].key = k
                    => result.chart.bars[j].delay_15.isnan
          /\ \A o \in get_delay_rate_graph(WithoutGroup(k), grouping_column) :
                /\ o.raised = NoError
                /\ RateEq(o.chart.ref, result.chart.ref)
                /\ {<<b.key, b.delay_15>> :
                        b \in {o.chart.bars[j] : j \in 1..Len(o.chart.bars)}}
                   = {<<b.key, b.delay_15>> :
                        b \in {result.chart.bars[j] :
                                 j \in 1..Len(result.chart.bars)} \
                              {c \in {result.chart.bars[j] :
                                 j \in 1..Len(result.chart.bars)} : c.key = k}}

\* group 2 has rows but no delay present, group 1 has a defined rate
AllMissingGroupWitness ==
    /\ Returned("get_delay_rate_graph")
    /\ 2 \in AllMissingGroups
    /\ Cardinality(RowsOfGroup(2)) = 2
    /\ Len(result.chart.bars) = 2
    /\ result.chart.bars[1].key = 1
    /\ ~result.chart.bars[1].delay_15.isnan
    /\ result.chart.bars[2].delay_15.isnan
    /\ ~result.chart.ref.isnan

====
